---------------------------- MODULE Spec2Model ----------------------------
(***************************************************************************)
(* Model of services/src/printnanny_api.rs: ApiService, its on-disk model  *)
(* cache (device.json, license.json), the remote API it calls and the      *)
(* task-status updates it submits.                                         *)
(*                                                                         *)
(* Every method of ApiService is an operator from the world before the     *)
(* call to the world after it and the value returned, so that a method     *)
(* calling another (license_check -> task_create -> task_status_create)    *)
(* is composed as the code composes it; one action per method applies it.  *)
(* What the environment decides (does a remote call succeed, does a file   *)
(* write succeed) is the argument `env`, chosen by the action with \E.     *)
(*                                                                         *)
(* SpecCache starts before ApiService::new, on any disk, and runs the      *)
(* methods of the model cache.  Spec starts after ApiService::new and runs *)
(* the license check and the methods that need the device record.          *)
(* SpecStatus runs task_create and task_status_create on a loaded cache.   *)
(*                                                                         *)
(* The second half models cli/src/settings.rs, SettingsCommand::handle,    *)
(* arms get, set and show.  The layered settings and the versioned store   *)
(* it calls (crate printnanny_settings) are modelled from their contract.  *)
(* SpecSettings runs one invocation after another; SpecRace runs two       *)
(* `settings set` invocations as processes that interleave at the file     *)
(* write and at the commit.                                                *)
(***************************************************************************)
EXTENDS Integers, Sequences, FiniteSets, TLC

VARIABLES
    remote,       \* what the remote service holds: the device of this host, its active license
    deviceFile,   \* content of paths.device_json
    licenseFile,  \* content of paths.license_json
    device,       \* ApiService.device  : Option<Device>
    license,      \* ApiService.license : Option<License>
    tasks,        \* the remote task list, each task with its status history
    constructed,  \* ApiService::new has returned
    calls,        \* remote calls made by the last method call, in order
    fsops,        \* file operations made by the last method call, in order
    ret,          \* the last method call: its name, arguments and return value
    before,       \* the world at the entry of the last method call
    cli,          \* the settings file, the environment, the version history, standard output
    procs         \* the `settings set` invocations running as separate processes

vars == <<remote, deviceFile, licenseFile, device, license, tasks,
          constructed, calls, fsops, ret, before, cli, procs>>

-----------------------------------------------------------------------------
(* Bounds *)

MaxTasks == 2        \* tasks the remote holds at most
MaxUpdates == 2      \* status updates the remote has recorded at most, over all tasks

DeviceIds == {1, 2}
LicenseIds == {1, 2}
Fingerprints == {"abc", "xyz"}

-----------------------------------------------------------------------------
(* Option and Result *)

None == [some |-> FALSE]
Some(v) == [some |-> TRUE, v |-> v]

Ok(v) == [ok |-> TRUE, val |-> v]
Err(e) == [ok |-> FALSE, err |-> e]

Unit == "()"

\* paths.device_json / paths.license_json
device_json == "device.json"
license_json == "license.json"

\* enum ServiceError: the variant, and the cache path SignupIncomplete carries
ServiceError(kind) == [kind |-> kind, cache |-> ""]
SignupIncomplete(path) == [kind |-> "SignupIncomplete", cache |-> path]

\* models::TaskStatusType
TaskStatusType == {"Pending", "Started", "Failed", "Success", "Timeout"}
Terminal == {"Failed", "Success", "Timeout"}

\* models::Device, models::License: the fields this code reads
Device == [id : DeviceIds]
License == [id : LicenseIds, fingerprint : Fingerprints, device : DeviceIds]

-----------------------------------------------------------------------------
(* Files and serde_json *)

NoFile == [exists |-> FALSE, bytes |-> <<>>]
FileOf(b) == [exists |-> TRUE, bytes |-> b]

Quote(s) == "\"" \o s \o "\""

\* serde_json::to_writer: the JSON text as a sequence of tokens
to_writer(kind, m) ==
    IF kind = "Device"
    THEN <<"{", "id", ToString(m.id), "}">>
    ELSE <<"{", "id", ToString(m.id),
                "fingerprint", Quote(m.fingerprint),
                "device", ToString(m.device), "}">>

IsObject(b) ==
    /\ Len(b) >= 2
    /\ b[1] = "{"
    /\ b[Len(b)] = "}"
    /\ (Len(b) - 2) % 2 = 0

KeyIndexes(b, k) == {i \in 2..(Len(b) - 1) : i % 2 = 0 /\ b[i] = k}
HasField(b, k) == KeyIndexes(b, k) # {}
GetField(b, k) == b[(CHOOSE i \in KeyIndexes(b, k) : TRUE) + 1]

IsInt(t, dom) == \E n \in dom : ToString(n) = t
ParseInt(t, dom) == CHOOSE n \in dom : ToString(n) = t
IsStr(t) == \E s \in Fingerprints : Quote(s) = t
ParseStr(t) == CHOOSE s \in Fingerprints : Quote(s) = t

\* serde_json::from_reader::<T>: unknown fields are ignored, a missing or
\* ill-typed field is an error
from_reader(kind, b) ==
    IF ~IsObject(b) THEN Err("syntax")
    ELSE IF kind = "Device"
    THEN IF HasField(b, "id") /\ IsInt(GetField(b, "id"), DeviceIds)
         THEN Ok([id |-> ParseInt(GetField(b, "id"), DeviceIds)])
         ELSE Err("data")
    ELSE IF /\ HasField(b, "id") /\ IsInt(GetField(b, "id"), LicenseIds)
            /\ HasField(b, "fingerprint") /\ IsStr(GetField(b, "fingerprint"))
            /\ HasField(b, "device") /\ IsInt(GetField(b, "device"), DeviceIds)
         THEN Ok([id |-> ParseInt(GetField(b, "id"), LicenseIds),
                  fingerprint |-> ParseStr(GetField(b, "fingerprint")),
                  device |-> ParseInt(GetField(b, "device"), DeviceIds)])
         ELSE Err("data")

-----------------------------------------------------------------------------
(* The world a method runs in *)

World ==
    [remote |-> remote, deviceFile |-> deviceFile, licenseFile |-> licenseFile,
     device |-> device, license |-> license, tasks |-> tasks,
     calls |-> calls, fsops |-> fsops]

\* a method and what it returned
Out(w, res) == [w |-> w, res |-> res]

FileAt(w, path) == IF path = device_json THEN w.deviceFile ELSE w.licenseFile
SetFile(w, path, f) ==
    IF path = device_json THEN [w EXCEPT !.deviceFile = f]
                          ELSE [w EXCEPT !.licenseFile = f]

Call(w, c) == [w EXCEPT !.calls = Append(@, c)]
FsOp(w, op, path, ok) ==
    [w EXCEPT !.fsops = Append(@, [op |-> op, path |-> path, ok |-> ok])]

\* outcomes of File::create followed by to_writer: both succeed; create
\* fails (nothing touched); create truncates the file and the write stops
\* after n tokens
WriteOk == [o |-> "ok", n |-> 0]
PartialLens == {0, 2}
WriteOutcomes ==
    {WriteOk, [o |-> "create_err", n |-> 0]}
        \cup {[o |-> "write_err", n |-> k] : k \in PartialLens}

\* what the environment decides during one method call
DefaultEnv ==
    [hostname |-> TRUE,     \* sys_info::hostname()
     devFetch |-> TRUE,     \* devices_retrieve_hostname / devices_retrieve
     devWrite |-> WriteOk,  \* writing device.json
     licFetch |-> TRUE,     \* devices_active_license_retrieve (first call)
     licWrite |-> WriteOk,  \* writing license.json
     licFetch2 |-> TRUE,    \* devices_active_license_retrieve (second call)
     create |-> TRUE,       \* devices_tasks_create
     status |-> TRUE]       \* devices_tasks_status_create

-----------------------------------------------------------------------------
(* fn read_model_json / fn save_model_json *)

read_model_json(w, kind, path) ==
    LET f == FileAt(w, path) IN
    IF ~f.exists
    THEN Out(FsOp(w, "open", path, FALSE), Err(ServiceError("IoError")))
    ELSE LET m == from_reader(kind, f.bytes)
             w1 == FsOp(w, "open", path, TRUE) IN
         IF m.ok THEN Out(FsOp(w1, "read", path, TRUE), Ok(m.val))
                 ELSE Out(FsOp(w1, "read", path, FALSE), Err(ServiceError("IoError")))

\* save_model_json opening the file for append instead of File::create
save_model_json_append(w, kind, m, path, wr) ==
    LET text == FileAt(w, path).bytes \o to_writer(kind, m) IN
    IF wr.o = "create_err"
    THEN Out(FsOp(w, "create", path, FALSE), Err(ServiceError("IoError")))
    ELSE Out(FsOp(SetFile(FsOp(w, "create", path, TRUE), path, FileOf(text)),
                  "write", path, TRUE),
             Ok(Unit))

save_model_json(w, kind, m, path, wr) ==
    LET text == to_writer(kind, m) IN
    IF wr.o = "create_err"
    THEN Out(FsOp(w, "create", path, FALSE), Err(ServiceError("IoError")))
    ELSE LET w1 == FsOp(w, "create", path, TRUE) IN
         IF wr.o = "write_err"
         THEN Out(FsOp(SetFile(w1, path, FileOf(SubSeq(text, 1, wr.n))),
                       "write", path, FALSE),
                  Err(ServiceError("IoError")))
         ELSE Out(FsOp(SetFile(w1, path, FileOf(text)), "write", path, TRUE),
                  Ok(Unit))

-----------------------------------------------------------------------------
(* The remote API, as the calls of devices_api see it *)

\* the active license the remote reports for a device
ActiveLicense(w, device_id) ==
    [id |-> w.remote.license.id,
     fingerprint |-> w.remote.license.fingerprint,
     device |-> device_id]

devices_retrieve_hostname(w, ok) ==
    LET w1 == Call(w, [api |-> "devices_retrieve_hostname", ok |-> ok]) IN
    IF ok THEN Out(w1, Ok(w.remote.device))
          ELSE Out(w1, Err(ServiceError("DevicesRetrieveHostnameError")))

devices_retrieve(w, id, ok) ==
    LET w1 == Call(w, [api |-> "devices_retrieve", device |-> id, ok |-> ok]) IN
    IF ok THEN Out(w1, Ok([id |-> id]))
          ELSE Out(w1, Err(ServiceError("DevicesRetrieveError")))

devices_active_license_retrieve(w, id, ok) ==
    LET w1 == Call(w, [api |-> "devices_active_license_retrieve",
                       device |-> id, ok |-> ok]) IN
    IF ok THEN Out(w1, Ok(ActiveLicense(w, id)))
          ELSE Out(w1, Err(ServiceError("DevicesActiveLicenseRetrieveError")))

devices_tasks_create(w, device_id, request, ok) ==
    LET task == [id |-> Len(w.tasks) + 1,
                 task_type |-> request.task_type,
                 device |-> request.device,
                 active |-> request.active,
                 history |-> <<>>]
        w1 == Call(w, [api |-> "devices_tasks_create", device |-> device_id,
                       request |-> request, ok |-> ok]) IN
    IF ok THEN Out([w1 EXCEPT !.tasks = Append(@, task)], Ok(task))
          ELSE Out(w1, Err(ServiceError("TaskCreateError")))

\* the remote appends the update to the task's history; it knows no task
\* task_id of device device_id, the call fails
devices_tasks_status_create(w, device_id, task_id, request, ok) ==
    LET found == /\ task_id \in 1..Len(w.tasks)
                 /\ w.tasks[task_id].device = device_id
        done == ok /\ found
        w1 == Call(w, [api |-> "devices_tasks_status_create",
                       device |-> device_id, task |-> task_id,
                       request |-> request, ok |-> done]) IN
    IF done
    THEN LET w2 == [w1 EXCEPT !.tasks[task_id].history = Append(@, request)] IN
         Out(w2, Ok(w2.tasks[task_id]))
    ELSE Out(w1, Err(ServiceError("TaskStatusCreateError")))

-----------------------------------------------------------------------------
(* impl ApiService *)
(* A method that goes on after a call is split at that call: the step that *)
(* follows takes what the call returned.                                    *)

\* `r?; Ok(v)`
ThenOk(r, v) == IF r.res.ok THEN Out(r.w, Ok(v)) ELSE r

device_retrieve(w, env) ==
    IF w.device.some
    THEN devices_retrieve(w, w.device.v.id, env.devFetch)
    ELSE Out(w, Err(SignupIncomplete(device_json)))

device_retrieve_hostname(w, env) ==
    IF ~env.hostname
    THEN Out(w, Err(ServiceError("SysInfoError")))
    ELSE devices_retrieve_hostname(w, env.devFetch)

\* license_retrieve_active asking the remote for device 1 when the slot is empty
license_retrieve_active_unguarded(w, ok) ==
    IF w.device.some
    THEN devices_active_license_retrieve(w, w.device.v.id, ok)
    ELSE devices_active_license_retrieve(w, 1, ok)

license_retrieve_active(w, ok) ==
    IF w.device.some
    THEN devices_active_license_retrieve(w, w.device.v.id, ok)
    ELSE Out(w, Err(SignupIncomplete(device_json)))

\* match res { Ok(device) => { save_model_json(..)?; Ok(device) }, Err(e) => Err(e) }
load_device_json_res(res, env) ==
    IF res.res.ok
    THEN ThenOk(save_model_json(res.w, "Device", res.res.val,
                                device_json, env.devWrite),
                res.res.val)
    ELSE res

\* match m { Ok(device) => Ok(device), Err(_e) => { device_retrieve_hostname .. } }
load_device_json_m(m, env) ==
    IF m.res.ok THEN m
    ELSE load_device_json_res(device_retrieve_hostname(m.w, env), env)

\* load_device_json writing the record back to device.json on a cache hit
load_device_json_resave_m(m, env) ==
    IF m.res.ok
    THEN ThenOk(save_model_json(m.w, "Device", m.res.val,
                                device_json, env.devWrite),
                m.res.val)
    ELSE load_device_json_res(device_retrieve_hostname(m.w, env), env)
load_device_json_resave(w, env) ==
    load_device_json_resave_m(read_model_json(w, "Device", device_json), env)

\* load_device_json creating device.json before the remote call returns
load_device_json_create_first_m(m, env) ==
    IF m.res.ok THEN m
    ELSE load_device_json_res(
             device_retrieve_hostname(
                 SetFile(FsOp(m.w, "create", device_json, TRUE),
                         device_json, FileOf(<<>>)),
                 env),
             env)
load_device_json_create_first(w, env) ==
    load_device_json_create_first_m(
        read_model_json(w, "Device", device_json), env)

load_device_json(w, env) ==
    load_device_json_m(read_model_json(w, "Device", device_json), env)

\* let license = self.license_retrieve_active().await?; save_model_json(..)?; Ok(license)
load_license_json_license(lic, env) ==
    IF lic.res.ok
    THEN ThenOk(save_model_json(lic.w, "License", lic.res.val,
                                license_json, env.licWrite),
                lic.res.val)
    ELSE lic

\* match m { Ok(license) => Ok(license), Err(_e) => { license_retrieve_active .. } }
load_license_json_m(m, env) ==
    IF m.res.ok THEN m
    ELSE load_license_json_license(license_retrieve_active(m.w, env.licFetch), env)

\* load_license_json going to the remote without reading license.json
load_license_json_refetch(w, env) ==
    load_license_json_license(license_retrieve_active(w, env.licFetch), env)

load_license_json(w, env) ==
    load_license_json_m(read_model_json(w, "License", license_json), env)

\* match device { Ok(v) => self.device = Some(v), Err(e) => self.device = None }
StoreDevice(d) ==
    [d.w EXCEPT !.device = IF d.res.ok THEN Some(d.res.val) ELSE None]
\* the same for self.license, and the Ok(()) load_models ends with
StoreLicense(l) ==
    Out([l.w EXCEPT !.license = IF l.res.ok THEN Some(l.res.val) ELSE None],
        Ok(Unit))

\* load_models returning the error of the device load (load_device_json()?)
load_models_abort_device(d, env) ==
    IF d.res.ok THEN StoreLicense(load_license_json(StoreDevice(d), env)) ELSE d
load_models_abort(w, env) ==
    load_models_abort_device(load_device_json(w, env), env)

load_models(w, env) ==
    StoreLicense(load_license_json(StoreDevice(load_device_json(w, env)), env))

new(w, env) ==
    ThenOk(load_models([w EXCEPT !.device = None, !.license = None], env), Unit)

\* task_status_create submitting once more when the remote refuses the update
task_status_create_retry(w, task_id, device_id, status, detail, wiki_url, env) ==
    LET req == [detail |-> detail, wiki_url |-> wiki_url, task |-> task_id,
                status |-> status]
        r == devices_tasks_status_create(w, device_id, task_id, req, env.status) IN
    IF r.res.ok THEN r
    ELSE devices_tasks_status_create(r.w, device_id, task_id, req, env.status)

task_status_create(w, task_id, device_id, status, detail, wiki_url, env) ==
    devices_tasks_status_create(
        w, device_id, task_id,
        [detail |-> detail, wiki_url |-> wiki_url, task |-> task_id,
         status |-> status],
        env.status)

\* task_create submitting the status to the first task the remote holds
task_create_task_first(task, device_id, status, detail, wiki_url, env) ==
    IF ~task.res.ok THEN task
    ELSE IF status.some
    THEN task_status_create(task.w, 1, device_id, status.v,
                            wiki_url, detail, env)
    ELSE task

\* let task = devices_tasks_create(..).await?;
\* match status { Some(s) => task_status_create(task.id, device.id, s, wiki_url, detail), None => Ok(task) }
task_create_task(task, device_id, status, detail, wiki_url, env) ==
    IF ~task.res.ok THEN task
    ELSE IF status.some
    THEN task_status_create(task.w, task.res.val.id, device_id, status.v,
                            wiki_url, detail, env)
    ELSE task

\* task_create reporting the license cache path when the device is missing
task_create_license_path(w, task_type, status, detail, wiki_url, env) ==
    IF w.device.some
    THEN task_create_task(
             devices_tasks_create(w, w.device.v.id,
                                  [active |-> TRUE, task_type |-> task_type,
                                   device |-> w.device.v.id],
                                  env.create),
             w.device.v.id, status, detail, wiki_url, env)
    ELSE Out(w, Err(SignupIncomplete(license_json)))

task_create(w, task_type, status, detail, wiki_url, env) ==
    IF w.device.some
    THEN task_create_task(
             devices_tasks_create(w, w.device.v.id,
                                  [active |-> TRUE, task_type |-> task_type,
                                   device |-> w.device.v.id],
                                  env.create),
             w.device.v.id, status, detail, wiki_url, env)
    ELSE Out(w, Err(SignupIncomplete(device_json)))

\* license_check writing the active license it fetched to license.json
license_check_license_resave(lic, env) ==
    IF lic.res.ok
    THEN load_license_json_license(
             license_retrieve_active(lic.w, env.licFetch2), env)
    ELSE lic

\* let active_license = self.license_retrieve_active().await?; Ok(active_license)
license_check_license(lic, env) ==
    IF lic.res.ok THEN license_retrieve_active(lic.w, env.licFetch2) ELSE lic

\* let license = self.load_license_json().await?;
license_check_task(task, env) ==
    IF task.res.ok THEN license_check_license(load_license_json(task.w, env), env)
    ELSE task

\* license_check loading license.json before it creates the task
license_check_load_first(w, env) ==
    license_check_task(
        task_create(load_license_json(w, env).w,
                    "SystemCheck", Some("Started"), None, None, env), env)

license_check(w, env) ==
    license_check_task(
        task_create(w, "SystemCheck", Some("Started"), None, None, env), env)

-----------------------------------------------------------------------------
(* Initial states: the disk and the remote as a starting process finds them *)

\* a cache file cut short: what a failed write leaves behind
Corrupt == <<"{", "id">>

InitDeviceFiles ==
    {NoFile, FileOf(Corrupt)} \cup {FileOf(to_writer("Device", d)) : d \in Device}
InitLicenseFiles ==
    {NoFile, FileOf(Corrupt)} \cup {FileOf(to_writer("License", l)) : l \in License}

\* the remote: this host's device and the license active for it
Remotes ==
    {[device |-> [id |-> 1], license |-> [id |-> 1, fingerprint |-> "abc"]],
     [device |-> [id |-> 2], license |-> [id |-> 2, fingerprint |-> "xyz"]]}

Update(task_id, status, detail, wiki_url) ==
    [detail |-> detail, wiki_url |-> wiki_url, task |-> task_id, status |-> status]

\* the remote holds no task yet, or one system-check task of this device
\* whose last recorded status is s
InitTasks(d) ==
    {<<>>} \cup
    {<<[id |-> 1, task_type |-> "SystemCheck", device |-> d.id, active |-> TRUE,
        history |-> <<Update(1, s, None, None)>>]>> : s \in TaskStatusType}

NoCall == [op |-> "none", args |-> <<>>, res |-> Ok(Unit)]

ApiLogs0 ==
    /\ calls = <<>>
    /\ fsops = <<>>
    /\ ret = NoCall
    /\ before = World

\* no settings command runs
NoSettings ==
    /\ cli = [file |-> NoFile, vcs |-> <<>>]
    /\ procs = <<>>

Logs0 ==
    /\ ApiLogs0
    /\ NoSettings

\* the model cache, before ApiService::new: any disk, any remote, no task
InitCache ==
    /\ remote \in Remotes
    /\ deviceFile \in InitDeviceFiles
    /\ licenseFile \in InitLicenseFiles
    /\ tasks = <<>>
    /\ device = None
    /\ license = None
    /\ constructed = FALSE
    /\ Logs0

\* the slot and the cache file ApiService::new leaves for a record kind:
\* both empty (the load failed), or the slot holding what the file holds
Loaded(kind, records) ==
    {[slot |-> None, file |-> NoFile]} \cup
    {[slot |-> Some(m), file |-> FileOf(to_writer(kind, m))] : m \in records}

\* the task-status protocol, after ApiService::new: the device slot is
\* empty or holds this host's device, the license slot is empty or holds a
\* license of that device, the remote holds at most one task
InitTask ==
    /\ remote \in Remotes
    /\ \E d \in Loaded("Device", {remote.device}) :
           device = d.slot /\ deviceFile = d.file
    /\ \E l \in Loaded("License", {x \in License : x.device = remote.device.id}) :
           license = l.slot /\ licenseFile = l.file
    /\ tasks \in InitTasks(remote.device)
    /\ constructed = TRUE
    /\ Logs0

-----------------------------------------------------------------------------
(* Actions: one per method of ApiService *)

\* the world a method call starts in: its logs are empty
Entry == [World EXCEPT !.calls = <<>>, !.fsops = <<>>]

\* the status updates the remote has recorded, over all tasks
Recorded(ts) ==
    UNION {{<<i, j>> : j \in DOMAIN ts[i].history} : i \in DOMAIN ts}

WithinBounds(w) ==
    /\ Len(w.tasks) <= MaxTasks
    /\ Cardinality(Recorded(w.tasks)) <= MaxUpdates

Return(op, args, out) ==
    /\ WithinBounds(out.w)
    /\ remote' = out.w.remote
    /\ deviceFile' = out.w.deviceFile
    /\ licenseFile' = out.w.licenseFile
    /\ device' = out.w.device
    /\ license' = out.w.license
    /\ tasks' = out.w.tasks
    /\ calls' = out.w.calls
    /\ fsops' = out.w.fsops
    /\ ret' = [op |-> op, args |-> args, res |-> out.res]
    /\ before' = Entry
    /\ UNCHANGED <<cli, procs>>

FetchEnvs == {[DefaultEnv EXCEPT !.devFetch = f] : f \in BOOLEAN}
HostEnvs ==
    {[DefaultEnv EXCEPT !.hostname = h, !.devFetch = f] :
        h \in BOOLEAN, f \in BOOLEAN}
DeviceEnvs ==
    {[DefaultEnv EXCEPT !.hostname = h, !.devFetch = f, !.devWrite = wr] :
        h \in BOOLEAN, f \in BOOLEAN, wr \in WriteOutcomes}
LicenseEnvs ==
    {[DefaultEnv EXCEPT !.licFetch = f, !.licWrite = wr] :
        f \in BOOLEAN, wr \in WriteOutcomes}
ModelEnvs ==
    {[e EXCEPT !.licFetch = f, !.licWrite = wr] :
        e \in DeviceEnvs, f \in BOOLEAN, wr \in WriteOutcomes}
TaskEnvs ==
    {[DefaultEnv EXCEPT !.create = c, !.status = s] :
        c \in BOOLEAN, s \in BOOLEAN}
CheckEnvs ==
    {[e EXCEPT !.licFetch = f, !.licWrite = wr, !.licFetch2 = g] :
        e \in TaskEnvs, f \in BOOLEAN, wr \in WriteOutcomes, g \in BOOLEAN}

\* the optional detail / help-link strings a caller passes
OptTexts == {<<None, None>>, <<Some("detail"), Some("help")>>}
OptStatuses == {None, Some("Started")}

Do_new ==
    /\ ~constructed
    /\ constructed' = TRUE
    /\ \E env \in ModelEnvs : Return("new", <<>>, new(Entry, env))

Do_load_models ==
    /\ constructed
    /\ UNCHANGED constructed
    /\ \E env \in ModelEnvs : Return("load_models", <<>>, load_models(Entry, env))

Do_device_retrieve ==
    /\ constructed
    /\ UNCHANGED constructed
    /\ \E env \in FetchEnvs :
           Return("device_retrieve", <<>>, device_retrieve(Entry, env))

Do_device_retrieve_hostname ==
    /\ constructed
    /\ UNCHANGED constructed
    /\ \E env \in HostEnvs :
           Return("device_retrieve_hostname", <<>>,
                  device_retrieve_hostname(Entry, env))

Do_license_retrieve_active ==
    /\ constructed
    /\ UNCHANGED constructed
    /\ \E ok \in BOOLEAN :
           Return("license_retrieve_active", <<>>,
                  license_retrieve_active(Entry, ok))

Do_load_device_json ==
    /\ constructed
    /\ UNCHANGED constructed
    /\ \E env \in DeviceEnvs :
           Return("load_device_json", <<>>, load_device_json(Entry, env))

Do_load_license_json ==
    /\ constructed
    /\ UNCHANGED constructed
    /\ \E env \in LicenseEnvs :
           Return("load_license_json", <<>>, load_license_json(Entry, env))

Do_license_check ==
    /\ constructed
    /\ UNCHANGED constructed
    /\ \E env \in CheckEnvs :
           Return("license_check", <<>>, license_check(Entry, env))

Do_task_create ==
    /\ constructed
    /\ UNCHANGED constructed
    /\ \E status \in OptStatuses, txt \in OptTexts, env \in TaskEnvs :
           Return("task_create", <<"SystemCheck", status, txt[1], txt[2]>>,
                  task_create(Entry, "SystemCheck", status, txt[1], txt[2], env))

\* the statuses a caller reports: one that keeps the task going, one that ends it
StatusInputs == {"Started", "Success"}
StatusEnvs == {[DefaultEnv EXCEPT !.status = s] : s \in BOOLEAN}

Do_task_status_create ==
    /\ constructed
    /\ UNCHANGED constructed
    /\ \E task_id \in 1..MaxTasks, device_id \in DeviceIds,
          status \in StatusInputs, txt \in OptTexts, env \in StatusEnvs :
           Return("task_status_create",
                  <<task_id, device_id, status, txt[1], txt[2]>>,
                  task_status_create(Entry, task_id, device_id, status,
                                     txt[1], txt[2], env))

\* the model cache
NextCache ==
    \/ Do_new
    \/ Do_load_models
    \/ Do_load_device_json
    \/ Do_load_license_json
    \/ Do_device_retrieve_hostname

SpecCache == InitCache /\ [][NextCache]_vars

\* the license check and the methods that need the device record
Next ==
    \/ Do_device_retrieve
    \/ Do_license_retrieve_active
    \/ Do_license_check
    \/ Do_task_create

Spec == InitTask /\ [][Next]_vars

\* the task-status calls alone: ApiService::new has loaded both records
\* from the remote, which holds no task yet
InitStatus ==
    /\ remote = [device |-> [id |-> 1], license |-> [id |-> 1, fingerprint |-> "abc"]]
    /\ device = Some(remote.device)
    /\ deviceFile = FileOf(to_writer("Device", remote.device))
    /\ license = Some(ActiveLicense([remote |-> remote], remote.device.id))
    /\ licenseFile = FileOf(to_writer("License", license.v))
    /\ tasks = <<>>
    /\ constructed = TRUE
    /\ Logs0

NextStatus ==
    \/ Do_task_create
    \/ Do_task_status_create

SpecStatus == InitStatus /\ [][NextStatus]_vars

-----------------------------------------------------------------------------
(* Layered settings: PrintNannySettings of the printnanny_settings crate *)

\* the fields of the settings object and the type of each
Keys == {"server", "timeout"}
KeyType(k) == IF k = "timeout" THEN "int" ELSE "str"

\* a settings value: a string or an integer, the integer by its digits
Str(s) == [t |-> "str", v |-> s]
Num(n) == [t |-> "int", v |-> ToString(n)]

Strs == {"a", "b", "c", "9"}
Ints == {5, 9}
Values == {Str(x) : x \in Strs} \cup {Num(n) : n \in Ints}

\* a layer maps some keys to values; the compiled-in defaults map every key
EmptyLayer == [k \in {} |-> Str("")]
Layer(k, v) == [x \in {k} |-> v]
Defaults == [server |-> Str("a"), timeout |-> Num(5)]

\* enum PrintNannySettingsError
SettingsError(kind) == [kind |-> kind]
\* todo!() / unimplemented!() / panic!(): the invocation aborts
Panic == Err(SettingsError("panic"))

\* the canonical text of a layer: TOML, one `key = value` per key
Render(v) == IF v.t = "str" THEN Quote(v.v) ELSE v.v
TomlEntry(m, k) == IF k \in DOMAIN m THEN <<k, "=", Render(m[k])>> ELSE <<>>
to_toml_string(m) == TomlEntry(m, "server") \o TomlEntry(m, "timeout")

IsValue(t) == \E v \in Values : Render(v) = t
ParseValue(t) == CHOOSE v \in Values : Render(v) = t
IsToml(b) ==
    /\ Len(b) % 3 = 0
    /\ \A i \in DOMAIN b :
           /\ i % 3 = 2 => b[i] = "="
           /\ i % 3 = 0 => IsValue(b[i])
           /\ i % 3 = 1 => \A j \in DOMAIN b : (j % 3 = 1 /\ b[j] = b[i]) => j = i
TomlValue(b, k) == b[(CHOOSE i \in DOMAIN b : i % 3 = 1 /\ b[i] = k) + 2]
from_toml(b) ==
    IF IsToml(b)
    THEN Ok([k \in {b[i] : i \in {j \in DOMAIN b : j % 3 = 1}} |->
                ParseValue(TomlValue(b, k))])
    ELSE Err(SettingsError("ConfigError"))

\* the file layer: a missing settings file contributes nothing
FileLayer(f) == IF f.exists THEN from_toml(f.bytes) ELSE Ok(EmptyLayer)

\* PrintNannySettings::figment: defaults, then the settings file, then the
\* process environment; a later layer's keys win
figment(c) ==
    IF ~FileLayer(c.file).ok \/ ~c.env.valid
    THEN Err(SettingsError("ConfigError"))
    ELSE Ok(c.env.layer @@ FileLayer(c.file).val @@ Defaults)

\* figment.join(data): the keys already present win
join(fig, key, value) == fig @@ Layer(key, Str(value))

\* figment.merge(Serialized::global(key, &value)): value is the &str of the
\* command line, and the merged key wins
merge(fig, key, value) == Layer(key, Str(value)) @@ fig

\* Figment::extract::<PrintNannySettings>: every field present and of its type
extract(fig) ==
    IF \A k \in Keys : k \in DOMAIN fig /\ fig[k].t = KeyType(k)
    THEN Ok([k \in Keys |-> fig[k]])
    ELSE Err(SettingsError("ConfigError"))

\* PrintNannySettings::new
PrintNannySettings_new(c) ==
    IF figment(c).ok THEN extract(figment(c).val) ELSE figment(c)

\* PrintNannySettings::find_value: the key in the merged layers
find_value(c, k) ==
    IF ~figment(c).ok THEN figment(c)
    ELSE IF k \in DOMAIN figment(c).val THEN Ok(figment(c).val[k])
    ELSE Err(SettingsError("KeyNotFound"))

-----------------------------------------------------------------------------
(* The versioned settings store: VersionControlledSettings::save_and_commit *)

Op(c, op, content, ok) ==
    [c EXCEPT !.ops = Append(@, [op |-> op, content |-> content, ok |-> ok])]

\* the commit HEAD points at
HEAD(c) == c.vcs[Len(c.vcs)]

\* the settings file is replaced as a whole (write, then rename), or not at all
save_write(c, content, ok) ==
    IF ok THEN Out(Op([c EXCEPT !.file = FileOf(content)], "write", content, TRUE),
                   Ok(Unit))
          ELSE Out(Op(c, "write", content, FALSE), Err(SettingsError("PersistError")))

\* save_commit recording the text it was handed, not the working tree
save_commit_content(c, content, message, ok) ==
    IF ok THEN Out(Op([c EXCEPT !.vcs = Append(@, [content |-> content,
                                                  message |-> message])],
                      "commit", content, TRUE),
                   Ok(Unit))
          ELSE Out(Op(c, "commit", content, FALSE), Err(SettingsError("VcsError")))

\* the working tree is committed; a failed commit leaves the file written
save_commit(c, content, message, ok) ==
    IF ok THEN Out(Op([c EXCEPT !.vcs = Append(@, [content |-> c.file.bytes,
                                                  message |-> message])],
                      "commit", c.file.bytes, TRUE),
                   Ok(Unit))
          ELSE Out(Op(c, "commit", c.file.bytes, FALSE),
                   Err(SettingsError("VcsError")))

save_and_commit_written(wr, content, message, env) ==
    IF wr.res.ok THEN save_commit(wr.w, content, message, env.commit) ELSE wr

\* save_and_commit committing first and writing the file afterwards
save_and_commit_commit_first(c, content, message, env) ==
    IF env.commit
    THEN save_write(Op([c EXCEPT !.vcs = Append(@, [content |-> content,
                                                   message |-> message])],
                       "commit", content, TRUE),
                    content, env.write)
    ELSE Out(Op(c, "commit", content, FALSE), Err(SettingsError("VcsError")))

save_and_commit(c, content, message, env) ==
    save_and_commit_written(save_write(c, content, env.write),
                            content, message, env)

-----------------------------------------------------------------------------
(* SettingsCommand::handle *)

Formats == {"json", "toml", "ini", "yaml"}

\* serde_json::to_vec_pretty / toml::ser::to_vec of the settings object;
\* a settings object of strings and integers always serializes
SerializeSettings(f, config) ==
    IF f = "json"
    THEN <<"{", "server", Render(config["server"]),
                "timeout", Render(config["timeout"]), "}">>
    ELSE to_toml_string(config)
\* the same of one value
SerializeValue(f, v) == <<Render(v)>>

\* what the environment decides during one invocation
SettingsEnv == [write : BOOLEAN, commit : BOOLEAN, out : {WriteOk.o, "write_err"},
                n : PartialLens]
StdoutEnvs == {e \in SettingsEnv : e.write /\ e.commit /\ (e.out = WriteOk.o => e.n = 0)}
SaveEnvs == {e \in SettingsEnv : e.out = WriteOk.o /\ e.n = 0}

Shorter(n, v) == IF n < Len(v) THEN n ELSE Len(v) - 1

\* io::stdout().write_all(&v)?
write_all(c, v, env) ==
    IF env.out = WriteOk.o
    THEN Out(Op([c EXCEPT !.stdout = @ \o v], "stdout", v, TRUE), Ok(Unit))
    ELSE Out(Op([c EXCEPT !.stdout = @ \o SubSeq(v, 1, Shorter(env.n, v))],
                "stdout", v, FALSE),
             Err(SettingsError("IoError")))

\* clone: settings.init_git_repo(&dir, &settings.git)?, into a directory
\* of its own; the settings file and its history are not touched
handle_clone(c, ok) ==
    IF ~PrintNannySettings_new(c).ok THEN Out(c, PrintNannySettings_new(c))
    ELSE IF ok THEN Out(Op(c, "clone", <<>>, TRUE), Ok(Unit))
    ELSE Out(Op(c, "clone", <<>>, FALSE), Err(SettingsError("VcsError")))

\* the bytes `get` prints: let v = match f { .. }
handle_get_v(c, key, f) ==
    IF f \in {"ini", "yaml"} THEN Panic
    ELSE IF key.some
    THEN IF find_value(c, key.v).ok
         THEN Ok(SerializeValue(f, find_value(c, key.v).val))
         ELSE find_value(c, key.v)
    ELSE IF PrintNannySettings_new(c).ok
         THEN Ok(SerializeSettings(f, PrintNannySettings_new(c).val))
         ELSE PrintNannySettings_new(c)

\* get printing the opening of the document before it looks the key up
handle_get_stream(c, key, f, env) ==
    IF ~PrintNannySettings_new(c).ok THEN Out(c, PrintNannySettings_new(c))
    ELSE IF ~handle_get_v(c, key, f).ok
    THEN Out([c EXCEPT !.stdout = @ \o <<"{">>], handle_get_v(c, key, f))
    ELSE write_all(c, handle_get_v(c, key, f).val, env)

handle_get(c, key, f, env) ==
    IF ~PrintNannySettings_new(c).ok THEN Out(c, PrintNannySettings_new(c))
    ELSE IF ~handle_get_v(c, key, f).ok THEN Out(c, handle_get_v(c, key, f))
    ELSE write_all(c, handle_get_v(c, key, f).val, env)

\* show printing the settings as json when the format is not implemented
handle_show_fallback(c, f, env) ==
    IF ~PrintNannySettings_new(c).ok THEN Out(c, PrintNannySettings_new(c))
    ELSE IF f \in {"ini", "yaml"}
    THEN write_all(c, SerializeSettings("json", PrintNannySettings_new(c).val), env)
    ELSE write_all(c, SerializeSettings(f, PrintNannySettings_new(c).val), env)

handle_show(c, f, env) ==
    IF ~PrintNannySettings_new(c).ok THEN Out(c, PrintNannySettings_new(c))
    ELSE IF f \in {"ini", "yaml"} THEN Out(c, Panic)
    ELSE write_all(c, SerializeSettings(f, PrintNannySettings_new(c).val), env)

\* format!("PrintNannySettings.{} updated at {:?}", key, now)
Message(key, now) == <<"PrintNannySettings.", key, " updated at ", ToString(now)>>

\* the canonical text `set` saves: figment, merge, extract, to_toml_string
handle_set_content(c, key, value) ==
    IF ~PrintNannySettings_new(c).ok THEN PrintNannySettings_new(c)
    ELSE IF ~figment(c).ok THEN figment(c)
    ELSE IF ~extract(merge(figment(c).val, key, value)).ok
    THEN extract(merge(figment(c).val, key, value))
    ELSE Ok(to_toml_string(extract(merge(figment(c).val, key, value)).val))

\* set saving the settings as they are before it extracts the merged ones
handle_set_save_first(c, key, value, env) ==
    IF ~PrintNannySettings_new(c).ok THEN Out(c, PrintNannySettings_new(c))
    ELSE IF ~handle_set_content(c, key, value).ok
    THEN Out(save_and_commit(c, to_toml_string(PrintNannySettings_new(c).val),
                             Message(key, c.clock), env).w,
             handle_set_content(c, key, value))
    ELSE save_and_commit(c, handle_set_content(c, key, value).val,
                         Message(key, c.clock), env)

handle_set(c, key, value, env) ==
    IF ~handle_set_content(c, key, value).ok
    THEN Out(c, handle_set_content(c, key, value))
    ELSE save_and_commit(c, handle_set_content(c, key, value).val,
                         Message(key, c.clock), env)

-----------------------------------------------------------------------------
(* Settings commands: one invocation after another *)

MaxRuns == 2         \* invocations of the settings command

\* the settings file as an invocation finds it: missing, cut short, a file
\* layer, or a file whose timeout is not an integer
InitSettingsFiles ==
    {NoFile,
     FileOf(<<"server", "=">>),
     FileOf(to_toml_string(Layer("server", Str("b")))),
     FileOf(to_toml_string(Layer("timeout", Str("9"))))}

\* the environment layer: empty, one key, or a value that does not parse
InitEnvs ==
    {[valid |-> TRUE, layer |-> EmptyLayer],
     [valid |-> TRUE, layer |-> Layer("server", Str("c"))],
     [valid |-> FALSE, layer |-> EmptyLayer]}

\* ApiService is not in use
NoApi ==
    /\ remote = [device |-> [id |-> 1], license |-> [id |-> 1, fingerprint |-> "abc"]]
    /\ deviceFile = NoFile
    /\ licenseFile = NoFile
    /\ tasks = <<>>
    /\ device = None
    /\ license = None
    /\ constructed = FALSE
    /\ ApiLogs0

\* the settings repository as cloned: HEAD holds the settings file
InitCli ==
    \E f \in InitSettingsFiles, e \in InitEnvs :
        cli = [file |-> f, env |-> e,
               vcs |-> <<[content |-> f.bytes, message |-> <<"clone">>]>>,
               stdout |-> <<>>, ops |-> <<>>, clock |-> 0,
               ret |-> NoCall, before |-> [file |-> f, vcs |-> <<>>]]

InitSettings ==
    /\ NoApi
    /\ InitCli
    /\ procs = <<>>

apiVars == <<remote, deviceFile, licenseFile, device, license, tasks,
             constructed, calls, fsops, ret, before>>

\* an invocation is a process of its own: nothing on standard output yet
SettingsEntry == [cli EXCEPT !.stdout = <<>>, !.ops = <<>>]

SettingsReturn(op, args, out) ==
    /\ cli.clock < MaxRuns
    /\ cli' = [out.w EXCEPT !.clock = @ + 1,
                            !.ret = [op |-> op, args |-> args, res |-> out.res],
                            !.before = [file |-> cli.file, vcs |-> cli.vcs]]
    /\ UNCHANGED <<apiVars, procs>>

OptKeys == {None} \cup {Some(k) : k \in Keys \cup {"nope"}}
SetValues == {"b", "9"}

Do_settings_clone ==
    \E ok \in BOOLEAN :
        SettingsReturn("clone", <<>>, handle_clone(SettingsEntry, ok))

Do_settings_get ==
    \E key \in OptKeys, f \in Formats, env \in StdoutEnvs :
        SettingsReturn("get", <<key, f>>, handle_get(SettingsEntry, key, f, env))

Do_settings_set ==
    \E key \in Keys, value \in SetValues, env \in SaveEnvs :
        SettingsReturn("set", <<key, value>>,
                       handle_set(SettingsEntry, key, value, env))

Do_settings_show ==
    \E f \in Formats, env \in StdoutEnvs :
        SettingsReturn("show", <<f>>, handle_show(SettingsEntry, f, env))

NextSettings ==
    \/ Do_settings_clone
    \/ Do_settings_get
    \/ Do_settings_set
    \/ Do_settings_show

SpecSettings == InitSettings /\ [][NextSettings]_vars

-----------------------------------------------------------------------------
(* Two `settings set` invocations as separate processes *)

Procs == {1, 2}

\* each process was started with a key and a value of its own
InitRace ==
    /\ NoApi
    /\ InitCli
    /\ \E k \in [Procs -> Keys], v \in [Procs -> SetValues] :
           procs = [p \in Procs |->
                       [pc |-> "start", key |-> k[p], value |-> v[p],
                        content |-> <<>>, message |-> <<>>, res |-> Ok(Unit)]]

Done(p, res) == [procs EXCEPT ![p].pc = "done", ![p].res = res]

\* handle, up to the call of save_and_commit
Race_resolve(p) ==
    /\ procs[p].pc = "start"
    /\ LET content == handle_set_content(cli, procs[p].key, procs[p].value) IN
       /\ procs' = IF content.ok
                   THEN [procs EXCEPT ![p].pc = "resolved",
                                      ![p].content = content.val,
                                      ![p].message = Message(procs[p].key, cli.clock)]
                   ELSE Done(p, content)
       /\ cli' = [cli EXCEPT !.clock = @ + 1]
    /\ UNCHANGED apiVars

\* save_and_commit: the settings file is replaced
Race_write(p) ==
    /\ procs[p].pc = "resolved"
    /\ \E ok \in BOOLEAN :
           LET wr == save_write(cli, procs[p].content, ok) IN
           /\ cli' = wr.w
           /\ procs' = IF ok THEN [procs EXCEPT ![p].pc = "written"]
                             ELSE Done(p, wr.res)
    /\ UNCHANGED apiVars

\* save_and_commit: the commit, and the return of handle
Race_commit(p) ==
    /\ procs[p].pc = "written"
    /\ \E ok \in BOOLEAN :
           LET cm == save_commit(cli, procs[p].content, procs[p].message, ok) IN
           /\ cli' = cm.w
           /\ procs' = Done(p, cm.res)
    /\ UNCHANGED apiVars

NextRace ==
    \/ \E p \in Procs : Race_resolve(p)
    \/ \E p \in Procs : Race_write(p)
    \/ \E p \in Procs : Race_commit(p)

SpecRace == InitRace /\ [][NextRace]_vars

-----------------------------------------------------------------------------
(* Reading the last method call off the state *)

Kinds == {"Device", "License"}

LoadOp(kind) == IF kind = "Device" THEN "load_device_json" ELSE "load_license_json"
PathOf(kind) == IF kind = "Device" THEN device_json ELSE license_json
FetchApi(kind) ==
    IF kind = "Device" THEN "devices_retrieve_hostname"
                       ELSE "devices_active_license_retrieve"
FetchError(kind) ==
    IF kind = "Device" THEN "DevicesRetrieveHostnameError"
                       ELSE "DevicesActiveLicenseRetrieveError"

FileNow(kind) == IF kind = "Device" THEN deviceFile ELSE licenseFile
FileBefore(kind) == IF kind = "Device" THEN before.deviceFile ELSE before.licenseFile

Valid(kind, f) == f.exists /\ from_reader(kind, f.bytes).ok
Parsed(kind, f) == from_reader(kind, f.bytes).val

\* the calls of one API the last method call made, and their number
CallsOf(api) == SelectSeq(calls, LAMBDA c : c.api = api)
FetchOk(kind) == \E i \in DOMAIN calls : calls[i].api = FetchApi(kind) /\ calls[i].ok
FetchFailed(kind) ==
    \E i \in DOMAIN calls : calls[i].api = FetchApi(kind) /\ ~calls[i].ok
AllCallsOk == \A i \in DOMAIN calls : calls[i].ok

FsDone(op, kind, ok) ==
    \E i \in DOMAIN fsops : fsops[i] = [op |-> op, path |-> PathOf(kind), ok |-> ok]
Touched(kind) ==
    \E i \in DOMAIN fsops :
        fsops[i].path = PathOf(kind) /\ fsops[i].op \in {"create", "write"}

\* the record the remote returns to the fetch of a kind
Fetched(kind) ==
    IF kind = "Device" THEN remote.device
                       ELSE ActiveLicense(before, before.device.v.id)

-----------------------------------------------------------------------------
(* Model cache: C3 - C7, under SpecCache *)

\* the load of a kind found no file, fetched the record, and (wrote) says
\* whether the cache file was written in full
FirstLoad(kind, wrote) ==
    /\ ret.op = LoadOp(kind)
    /\ ~FileBefore(kind).exists
    /\ FetchOk(kind)
    /\ wrote => FsDone("write", kind, TRUE)

LoadedAndCached(kind) ==
    /\ ret.res = Ok(Fetched(kind))
    /\ FileNow(kind).exists
    /\ from_reader(kind, FileNow(kind).bytes) = Ok(Fetched(kind))

\* the next call is a load of the same kind: same record, no remote call
SecondLoad(kind) ==
    ret'.op = LoadOp(kind) => ret'.res = ret.res /\ calls' = <<>>

C4_CacheTrusted ==
    \A kind \in Kinds :
        (ret.op = LoadOp(kind) /\ Valid(kind, FileBefore(kind))) =>
            /\ ret.res = Ok(Parsed(kind, FileBefore(kind)))
            /\ calls = <<>>
            /\ FileNow(kind) = FileBefore(kind)
            /\ ~Touched(kind)

\* the cached license differs from the one the remote holds
C4_Witness ==
    /\ ret.op = "load_license_json"
    /\ Valid("License", before.licenseFile)
    /\ before.device.some
    /\ ret.res.ok
    /\ ret.res.val.fingerprint # remote.license.fingerprint

\* the load of a kind found a file that does not deserialize and fetched
\* the record
CorruptLoad(kind, wrote) ==
    /\ ret.op = LoadOp(kind)
    /\ FileBefore(kind).exists
    /\ ~Valid(kind, FileBefore(kind))
    /\ FetchOk(kind)
    /\ wrote => FsDone("write", kind, TRUE)

\* C5 as stated: with a corrupt cache file and a successful fetch, load
\* returns the fetched record and the cache file then holds a valid
\* serialization of exactly that record.
C5_AsStated ==
    \A kind \in Kinds : CorruptLoad(kind, FALSE) => LoadedAndCached(kind)

\* C5 (amended): with a corrupt cache file, a successful fetch and a
\* successful write of the cache file, load returns the fetched record and
\* the cache file then holds a valid serialization of exactly that record.
C5_CorruptOverwritten ==
    \A kind \in Kinds : CorruptLoad(kind, TRUE) => LoadedAndCached(kind)

C5_Witness ==
    /\ CorruptLoad("License", TRUE)
    /\ licenseFile # before.licenseFile
    /\ Valid("License", licenseFile)

\* C6: when the cache file is missing or corrupt and the remote fetch
\* fails, load returns the ServiceError of that remote call and the cache
\* file is as it was before the call: not created, not written.
C6_FetchFailureLeavesCache ==
    \A kind \in Kinds :
        (/\ ret.op = LoadOp(kind)
         /\ ~Valid(kind, FileBefore(kind))
         /\ FetchFailed(kind)) =>
            /\ ret.res = Err(ServiceError(FetchError(kind)))
            /\ FileNow(kind) = FileBefore(kind)
            /\ ~Touched(kind)

C6_Witness ==
    /\ ret.op = "load_device_json"
    /\ before.deviceFile = FileOf(Corrupt)
    /\ FetchFailed("Device")
    /\ ~ret.res.ok

\* what the load of a kind inside load_models came to: the record on disk,
\* else the record fetched and written, else nothing
LoadResult(kind) ==
    IF Valid(kind, FileBefore(kind)) THEN Some(Parsed(kind, FileBefore(kind)))
    ELSE IF FetchOk(kind) /\ FsDone("write", kind, TRUE)
    THEN Some(IF kind = "Device" THEN remote.device
                                 ELSE ActiveLicense(before, device.v.id))
    ELSE None

\* C7: load_models and ApiService::new always return Ok; each slot holds
\* the record its load returned, or None if that load failed, whatever
\* became of the other load.
C7_LoadModelsNeverFails ==
    ret.op \in {"load_models", "new"} =>
        /\ ret.res = Ok(Unit)
        /\ device = LoadResult("Device")
        /\ license = LoadResult("License")

\* the device load failed and the license load succeeded
C7_Witness ==
    /\ ret.op = "new"
    /\ device = None
    /\ license # None
    /\ FetchFailed("Device")

\* load_models or new found neither cache file, and both remote fetches
\* succeeded; (wrote) says whether both cache files were written in full
ColdStart(wrote) ==
    /\ ret.op \in {"load_models", "new"}
    /\ ~before.deviceFile.exists
    /\ ~before.licenseFile.exists
    /\ FetchOk("Device")
    /\ FetchOk("License")
    /\ wrote => FsDone("write", "Device", TRUE) /\ FsDone("write", "License", TRUE)

\* both slots and both cache files hold the fetched records, and the
\* device was fetched before the license, which was asked for that device
BothHydrated ==
    /\ device = Some(remote.device)
    /\ license = Some(ActiveLicense(before, remote.device.id))
    /\ Valid("Device", deviceFile)
    /\ Parsed("Device", deviceFile) = remote.device
    /\ Valid("License", licenseFile)
    /\ Parsed("License", licenseFile) = license.v
    /\ \A i \in DOMAIN calls :
           calls[i].api = "devices_active_license_retrieve" =>
               /\ calls[i].device = remote.device.id
               /\ \E j \in 1..(i - 1) :
                      calls[j].api = "devices_retrieve_hostname" /\ calls[j].ok

\* the device load failed and there is no license.json: the license slot
\* is None and the remote was not asked for the license
NoDeviceNoLicense ==
    (/\ ret.op \in {"load_models", "new"}
     /\ device = None
     /\ ~before.licenseFile.exists) =>
        /\ license = None
        /\ CallsOf("devices_active_license_retrieve") = <<>>

\* C21 as stated: starting with neither cache file and both fetches
\* succeeding, load_models leaves both slots populated and both cache
\* files written, the license fetched for the fetched device after the
\* device; if the device load fails and license.json is absent, the
\* license slot is None and no license fetch is made.
C21_AsStated ==
    /\ ColdStart(FALSE) => BothHydrated
    /\ NoDeviceNoLicense

\* C21 (amended): the same, when both cache files are also written
\* successfully.
C21_DeviceBeforeLicense ==
    /\ ColdStart(TRUE) => BothHydrated
    /\ NoDeviceNoLicense

C21_Witness ==
    /\ ColdStart(TRUE)
    /\ ret.op = "new"
    /\ Len(calls) = 2
    /\ license # None
    /\ licenseFile.exists

-----------------------------------------------------------------------------
(* License check and task status: C1, C2, C8 - C11, C22, C23, under Spec *)

\* the status updates the last method call submitted and the remote recorded
Submitted ==
    SelectSeq(calls, LAMBDA c : c.api = "devices_tasks_status_create" /\ c.ok)
SubmittedWith(statuses) ==
    SelectSeq(Submitted, LAMBDA c : c.request.status \in statuses)
Created == CallsOf("devices_tasks_create")

\* the status of a task: its last recorded update, Pending before the first
LastStatus(t) ==
    IF t.history = <<>> THEN "Pending" ELSE t.history[Len(t.history)].status

\* the license-check task that is active on the remote, if any: the latest
HasActiveTask(ts) == \E i \in DOMAIN ts : ts[i].active
ActiveTask(ts) == ts[CHOOSE i \in DOMAIN ts :
                        ts[i].active /\ \A j \in DOMAIN ts : ts[j].active => j <= i]

\* a run of license_check with the device slot filled in which every
\* remote call succeeded and which returned Ok
CheckRan ==
    /\ ret.op = "license_check"
    /\ before.device.some
    /\ AllCallsOk
    /\ ret.res.ok

\* C1: from no active task and a populated device slot, a run of
\* license_check in which every remote call succeeds submits exactly one
\* Started update followed by exactly one terminal update, Failed or
\* Success, to the task it drives.
C1_StartedThenTerminal ==
    (CheckRan /\ ~HasActiveTask(before.tasks)) =>
        /\ Len(Submitted) = 2
        /\ Submitted[1].request.status = "Started"
        /\ Submitted[2].request.status \in {"Failed", "Success"}
        /\ Submitted[1].task = Submitted[2].task
        /\ LastStatus(tasks[Submitted[1].task]) = Submitted[2].request.status

\* the license load_license_json hands to license_check, and the license
\* active on the remote that license_check returns
CachedLicense ==
    IF Valid("License", before.licenseFile)
    THEN Parsed("License", before.licenseFile)
    ELSE ActiveLicense(before, before.device.v.id)
Matches(l, a) == l.id = a.id /\ l.fingerprint = a.fingerprint

\* C2: license_check submits the terminal update Failed, with a detail
\* string, when the cached license differs from the active license in
\* identifier or fingerprint, and the terminal update Success when both
\* are equal.
C2_TerminalFollowsComparison ==
    CheckRan =>
        IF Matches(CachedLicense, ret.res.val)
        THEN /\ Len(SubmittedWith(Terminal)) = 1
             /\ SubmittedWith(Terminal)[1].request.status = "Success"
        ELSE /\ Len(SubmittedWith(Terminal)) = 1
             /\ SubmittedWith(Terminal)[1].request.status = "Failed"
             /\ SubmittedWith(Terminal)[1].request.detail.some

\* C8: with the device slot None, device_retrieve, license_retrieve_active
\* and task_create fail with SignupIncomplete carrying the path of
\* device.json, and make no remote call.
C8_SignupIncomplete ==
    (/\ ret.op \in {"device_retrieve", "license_retrieve_active", "task_create"}
     /\ ~before.device.some) =>
        /\ ret.res = Err(SignupIncomplete(device_json))
        /\ calls = <<>>
        /\ tasks = before.tasks

C8_Witness ==
    /\ ret.op = "task_create"
    /\ ~before.device.some
    /\ ~ret.res.ok
    /\ ret.args[2] = Some("Started")

\* C9: when license_check runs while the active task's last recorded
\* status is Started, it submits no Started update and creates no task.
C9_NoDuplicateStarted ==
    (/\ ret.op = "license_check"
     /\ HasActiveTask(before.tasks)
     /\ LastStatus(ActiveTask(before.tasks)) = "Started") =>
        /\ Created = <<>>
        /\ SubmittedWith({"Started"}) = <<>>
        /\ Len(tasks) = Len(before.tasks)

\* C10: when license_check runs while the active task's last recorded
\* status is Pending, it submits a Started update on that task and
\* creates no task.
C10_PendingAcknowledged ==
    (/\ CheckRan
     /\ HasActiveTask(before.tasks)
     /\ LastStatus(ActiveTask(before.tasks)) = "Pending") =>
        /\ Created = <<>>
        /\ Len(SubmittedWith({"Started"})) = 1
        /\ SubmittedWith({"Started"})[1].task = ActiveTask(before.tasks).id

\* license_check found no active task, or one whose last recorded status
\* is terminal
NoTaskInProgress ==
    /\ ret.op = "license_check"
    /\ \/ ~HasActiveTask(before.tasks)
       \/ LastStatus(ActiveTask(before.tasks)) \in Terminal

\* the first remote call creates a task; when it succeeds the next and only
\* other task call submits Started for the task just created, and when it
\* fails no status is submitted
FreshTaskThenStarted ==
    /\ calls # <<>>
    /\ calls[1].api = "devices_tasks_create"
    /\ Len(Created) = 1
    /\ IF calls[1].ok
       THEN /\ Len(tasks) = Len(before.tasks) + 1
            /\ Len(calls) >= 2
            /\ calls[2].api = "devices_tasks_status_create"
            /\ calls[2].task = tasks[Len(tasks)].id
            /\ calls[2].request.task = tasks[Len(tasks)].id
            /\ calls[2].request.status = "Started"
            /\ Len(CallsOf("devices_tasks_status_create")) = 1
       ELSE /\ Len(calls) = 1
            /\ tasks = before.tasks
            /\ ret.res = Err(ServiceError("TaskCreateError"))

\* C11 as stated: when license_check runs and no active task exists or the
\* active task's last status is terminal, it creates a fresh task and then
\* submits Started for that task; the status call is skipped if the create
\* fails.
C11_AsStated == NoTaskInProgress => FreshTaskThenStarted

\* C11 (amended): the same, for a run of license_check that finds the
\* device slot populated.
C11_FreshTaskThenStarted ==
    (NoTaskInProgress /\ before.device.some) => FreshTaskThenStarted

\* a fresh task was created next to a task that had ended, and started
C11_Witness ==
    /\ NoTaskInProgress
    /\ HasActiveTask(before.tasks)
    /\ Len(tasks) = 2
    /\ Len(Submitted) = 1
    /\ LastStatus(tasks[2]) = "Started"

\* C22: license_check with an empty device slot returns SignupIncomplete,
\* makes no remote call and writes no cache file, also when a valid
\* license.json is on disk.
C22_CheckNeedsDevice ==
    (ret.op = "license_check" /\ ~before.device.some) =>
        /\ ret.res = Err(SignupIncomplete(device_json))
        /\ calls = <<>>
        /\ fsops = <<>>
        /\ tasks = before.tasks
        /\ deviceFile = before.deviceFile
        /\ licenseFile = before.licenseFile

C22_Witness ==
    /\ ret.op = "license_check"
    /\ ~before.device.some
    /\ Valid("License", before.licenseFile)
    /\ ~ret.res.ok

-----------------------------------------------------------------------------
(* Status updates: C12 - C14, under SpecStatus *)

\* every status submission of the last method call, recorded or refused
StatusCalls == CallsOf("devices_tasks_status_create")

\* C12: every status update submitted carries the task identifier, the
\* device identifier, the new status, the caller's detail string in detail
\* and the caller's help-link string in wiki_url, both for
\* task_status_create and for task_create(type, Some(status), detail,
\* help_link).
C12_UpdateCarriesArguments ==
    \A i \in DOMAIN StatusCalls :
        LET c == StatusCalls[i] IN
        /\ ret.op = "task_status_create" =>
               /\ c.task = ret.args[1]
               /\ c.device = ret.args[2]
               /\ c.request = Update(ret.args[1], ret.args[3],
                                     ret.args[4], ret.args[5])
        /\ ret.op = "task_create" =>
               /\ c.request.task = c.task
               /\ c.device = before.device.v.id
               /\ c.request.status = ret.args[2].v
               /\ c.request.detail = ret.args[3]
               /\ c.request.wiki_url = ret.args[4]

\* the history the remote held for a task is the beginning of the one it
\* holds now
HistoryKept ==
    \A i \in DOMAIN before.tasks :
        /\ i \in DOMAIN tasks
        /\ Len(tasks[i].history) >= Len(before.tasks[i].history)
        /\ SubSeq(tasks[i].history, 1, Len(before.tasks[i].history))
               = before.tasks[i].history

\* C13: in any sequence of task_create, task_status_create and
\* license_check calls, no status update is submitted for a task after a
\* terminal status has been recorded for it, and no recorded update is
\* removed or reordered.
C13_NoUpdateAfterTerminal ==
    /\ \A i \in DOMAIN StatusCalls :
           StatusCalls[i].task \in DOMAIN before.tasks =>
               LastStatus(before.tasks[StatusCalls[i].task]) \notin Terminal
    /\ HistoryKept

\* C14: task_status_create makes exactly one remote submission and
\* task_create at most one create call and at most one submission; a
\* submission the remote refuses comes back as a ServiceError and the
\* remote is not called again.
C14_SubmittedOnce ==
    /\ ret.op = "task_status_create" =>
           /\ Len(calls) = 1
           /\ Len(StatusCalls) = 1
    /\ ret.op = "task_create" =>
           /\ Len(Created) <= 1
           /\ Len(StatusCalls) <= 1
           /\ Len(calls) = Len(Created) + Len(StatusCalls)
    /\ (/\ ret.op \in {"task_status_create", "task_create"}
        /\ StatusCalls # <<>>
        /\ ~StatusCalls[Len(StatusCalls)].ok) =>
           /\ ret.res = Err(ServiceError("TaskStatusCreateError"))
           /\ \A i \in DOMAIN before.tasks :
                  tasks[i].history = before.tasks[i].history

\* the remote refused the update task_status_create submitted for a task
\* it holds
C14_Witness ==
    /\ ret.op = "task_status_create"
    /\ ret.args[1] \in DOMAIN before.tasks
    /\ before.tasks[ret.args[1]].device = ret.args[2]
    /\ calls # <<>>
    /\ ~calls[1].ok
    /\ ~ret.res.ok

-----------------------------------------------------------------------------
(* Settings commands: C15 - C17, C19, C20, under SpecSettings *)

SetRan == cli.ret.op = "set"

\* the settings object the settings file holds
Persisted == from_toml(cli.file.bytes)

\* the file layer the invocation found
FileLayerBefore ==
    IF FileLayer(cli.before.file).ok THEN FileLayer(cli.before.file).val
                                     ELSE EmptyLayer

\* the value of the highest layer below the override that contains k
Highest(k) ==
    IF k \in DOMAIN cli.env.layer THEN cli.env.layer[k]
    ELSE IF k \in DOMAIN FileLayerBefore THEN FileLayerBefore[k]
    ELSE Defaults[k]

OthersFromHighest ==
    \A k \in Keys \ {cli.ret.args[1]} :
        k \in DOMAIN Persisted.val /\ Persisted.val[k] = Highest(k)

Requested ==
    IF cli.ret.op = "set" THEN <<>>
    ELSE IF cli.ret.op = "show"
    THEN SerializeSettings(cli.ret.args[1], PrintNannySettings_new(cli).val)
    ELSE IF cli.ret.args[1].some
    THEN SerializeValue(cli.ret.args[2], find_value(cli, cli.ret.args[1].v).val)
    ELSE SerializeSettings(cli.ret.args[2], PrintNannySettings_new(cli).val)

SettingsRan == cli.ret.op \in {"get", "show", "set"}

\* get was asked for a key no layer holds
AbsentKey ==
    /\ cli.ret.op = "get"
    /\ cli.ret.args[1].some
    /\ cli.ret.args[2] \in {"json", "toml"}
    /\ PrintNannySettings_new(cli).ok
    /\ cli.ret.args[1].v \notin DOMAIN figment(cli).val

\* C16 as stated: get, show and set write the full requested serialization
\* to standard output or nothing; any failure, KeyNotFound included, ends
\* the invocation before any byte is written.
C16_AsStated ==
    SettingsRan =>
        /\ IF cli.ret.res.ok THEN cli.stdout = Requested ELSE cli.stdout = <<>>
        /\ AbsentKey => cli.ret.res = Err(SettingsError("KeyNotFound"))

\* C16 (amended): the same for every failure but that of the write to
\* standard output itself.
C16_AllOrNothing ==
    SettingsRan =>
        /\ cli.ret.res.ok => cli.stdout = Requested
        /\ (~cli.ret.res.ok /\ cli.ret.res.err.kind # "IoError") =>
               cli.stdout = <<>>
        /\ AbsentKey => cli.ret.res = Err(SettingsError("KeyNotFound"))

C16_Witness ==
    /\ AbsentKey
    /\ ~cli.ret.res.ok
    /\ cli.stdout = <<>>

\* C17: a successful return of save_and_commit, as called by set, implies
\* that the settings file and HEAD both hold the canonical text passed in;
\* the file is written before the commit, and no commit is recorded for
\* content that was not written.
C17_CommitFollowsWrite ==
    SetRan =>
        /\ cli.ret.res.ok =>
               /\ Len(cli.ops) = 2
               /\ cli.ops[1].op = "write" /\ cli.ops[1].ok
               /\ cli.ops[2].op = "commit" /\ cli.ops[2].ok
               /\ cli.file = FileOf(cli.ops[1].content)
               /\ HEAD(cli).content = cli.ops[1].content
        /\ \A i \in DOMAIN cli.ops :
               (cli.ops[i].op = "commit" /\ cli.ops[i].ok) =>
                   /\ i > 1
                   /\ cli.ops[i - 1] = [op |-> "write", ok |-> TRUE,
                                        content |-> cli.ops[i].content]
                   /\ HEAD(cli).content = cli.file.bytes
        /\ cli.vcs # cli.before.vcs =>
               \E i \in DOMAIN cli.ops : cli.ops[i].op = "commit" /\ cli.ops[i].ok

C17_Witness ==
    /\ SetRan
    /\ cli.ret.res.ok
    /\ cli.file # cli.before.file
    /\ Len(cli.vcs) = Len(cli.before.vcs) + 1
    /\ HEAD(cli).content = cli.file.bytes

\* C19: when set fails with ConfigError, resolving the layers or
\* extracting the merged settings with the override applied, the error is
\* returned and neither the settings file nor the version history changes:
\* save_and_commit is not reached.
C19_ConfigErrorSavesNothing ==
    (SetRan /\ cli.ret.res = Err(SettingsError("ConfigError"))) =>
        /\ cli.file = cli.before.file
        /\ cli.vcs = cli.before.vcs
        /\ cli.ops = <<>>

\* the layers resolve, the settings with the override applied do not
C19_Witness ==
    /\ SetRan
    /\ cli.ret.res = Err(SettingsError("ConfigError"))
    /\ PrintNannySettings_new(cli).ok
    /\ cli.ret.args[1] = "timeout"

\* get or show was asked for the ini or the yaml format
Unimplemented ==
    \/ cli.ret.op = "get" /\ cli.ret.args[2] \in {"ini", "yaml"}
    \/ cli.ret.op = "show" /\ cli.ret.args[1] \in {"ini", "yaml"}

\* C20: get and show fail when asked for ini or yaml: the invocation ends
\* in a failure with nothing written to standard output, and never prints
\* json or toml instead.
C20_UnimplementedFormatFails ==
    Unimplemented =>
        /\ ~cli.ret.res.ok
        /\ cli.stdout = <<>>
        /\ cli.ops = <<>>

C20_Witness ==
    /\ Unimplemented
    /\ cli.ret.op = "show"
    /\ cli.ret.res = Panic

-----------------------------------------------------------------------------
(* Concurrent set: C18, under SpecRace *)

\* C18 as stated: with two set invocations running concurrently, the
\* settings file never differs from the content of the last commit.
C18_AsStated == cli.file.bytes = HEAD(cli).content

InFlight == \E p \in Procs : procs[p].pc = "written"
CommitFailed == \E i \in DOMAIN cli.ops : cli.ops[i].op = "commit" /\ ~cli.ops[i].ok

\* C18 (amended): the settings file differs from the content of the last
\* commit only while an invocation is between its file write and its
\* commit, or after a commit has failed.
C18_FileAheadOnlyInFlight ==
    (~InFlight /\ ~CommitFailed) => cli.file.bytes = HEAD(cli).content

\* both invocations wrote, different texts, before either committed
C18_Witness ==
    /\ \A p \in Procs : procs[p].pc = "done" /\ procs[p].res.ok
    /\ Len(cli.ops) = 4
    /\ cli.ops[1].op = "write"
    /\ cli.ops[2].op = "write"
    /\ cli.ops[1].content # cli.ops[2].content

=============================================================================
